---------------------------- MODULE Spec2Model ----------------------------
(***************************************************************************)
(* Turn-resolution and economy engine of the Itadaki Street prototype      *)
(* (src/src/main.rs): the board produced by generate_board, the roster     *)
(* built by Game::new, the scheduler entry point bot_turns, advance_player *)
(* and the tile rules of handle_tile.                                      *)
(*                                                                         *)
(* Indices are 0-based as in the source: board and players are functions   *)
(* over 0..len-1.  A HashMap is a function whose DOMAIN is its key set.    *)
(***************************************************************************)
EXTENDS Integers, FiniteSets, Sequences, TLC

VARIABLES
    board,                \* Game.board: Vec<Tile>
    players,              \* Game.players: Vec<PlayerState>
    current_turn,         \* Game.current_turn
    district_shop_count,  \* Game.district_shop_count: HashMap<district, usize>
    last,                 \* what the most recent call did (op, player, roll, tile, delta)
    before,               \* the session as it was when the most recent call started
    turns,                \* number of bot_turns calls whose timer had finished
    calls,                \* number of direct advance_player calls
    limit                 \* how many calls this run explores

vars == <<board, players, current_turn, district_shop_count, last, before,
          turns, calls, limit>>

-----------------------------------------------------------------------------
(* Bounds of the exploration *)

\* bot_turns calls explored from Game::new()
MaxTurns == 9
\* calls explored from each session of InitEngine
MaxCalls == 2

-----------------------------------------------------------------------------
(* Types of the source *)

\* roll: i32, cash: i32, price: i32
I32Max == 2147483647

Suits == {"Spade", "Heart", "Diamond", "Club"}

NoDistrict == "-"
NoSuit == "-"

\* The four constructors of TileKind; fields a constructor does not carry
\* hold NoDistrict / 0 / NoSuit.
Bank == [kind |-> "Bank", district |-> NoDistrict, price |-> 0, base_fee |-> 0,
         suit |-> NoSuit]
Property(d, p, f) == [kind |-> "Property", district |-> d, price |-> p,
                      base_fee |-> f, suit |-> NoSuit]
SuitTile(s) == [kind |-> "Suit", district |-> NoDistrict, price |-> 0,
                base_fee |-> 0, suit |-> s]
Chance == [kind |-> "Chance", district |-> NoDistrict, price |-> 0,
           base_fee |-> 0, suit |-> NoSuit]

len(f) == Cardinality(DOMAIN f)

-----------------------------------------------------------------------------
(* generate_board *)

\* let layout = vec![...]: 17 tile kinds
layout ==
    << Bank,
       Property("Downtown", 300, 80),
       SuitTile("Spade"),
       Property("Downtown", 320, 90),
       Chance,
       Property("Plaza", 280, 75),
       SuitTile("Heart"),
       Property("Plaza", 260, 70),
       Chance,
       Property("Harbor", 350, 95),
       SuitTile("Diamond"),
       Property("Harbor", 360, 105),
       Chance,
       Property("Grove", 240, 60),
       SuitTile("Club"),
       Property("Grove", 260, 65),
       Chance >>

\* coords_len with a coordinate for every entry of the layout
coords_len_layout == Len(layout)

\* coords: for x in 0..4, for y in 1..4, for x in (0..3).rev(), for y in (1..3).rev()
coords_len == Cardinality(0..3) + Cardinality(1..3) + Cardinality(0..2)
              + Cardinality(1..2)

Min(a, b) == IF a <= b THEN a ELSE b

\* layout.into_iter().zip(coords.into_iter()).enumerate(): the zip stops at the
\* shorter of the two; tile i carries index i.
generate_board ==
    [i \in 0..(Min(Len(layout), coords_len) - 1) |->
        [index |-> i, kind |-> layout[i + 1]]]

-----------------------------------------------------------------------------
(* PlayerState and Game::new *)

\* PlayerState { name, kind, cash, .. Default::default() }
new_player(name, kind, cash) ==
    [name |-> name, kind |-> kind, cash |-> cash,
     stocks |-> << >>,        \* HashMap::default(): no key
     properties |-> {},       \* HashSet<usize>
     suits |-> {},            \* HashSet<Suit>
     position |-> 0,
     level |-> 0]

starting_cash == 2500

\* the roster of Game::new
new_players ==
    [i \in 0..2 |->
        CASE i = 0 -> new_player("Hero", "Human", starting_cash)
          [] i = 1 -> new_player("Bot A", "Bot", starting_cash)
          [] i = 2 -> new_player("Bot B", "Bot", starting_cash)]

RECURSIVE SumOver(_, _)
\* sum of f[k] over the keys k in S (Iterator::sum)
SumOver(f, S) ==
    IF S = {} THEN 0
    ELSE LET k == CHOOSE x \in S : TRUE
         IN f[k] + SumOver(f, S \ {k})

\* PlayerState::net_worth: cash + prices of the owned Property tiles (filter_map
\* drops an owned index whose tile is no Property) + stock values
net_worth(player, brd) ==
    LET priced == {t \in player.properties : brd[t].kind.kind = "Property"}
        property_value == SumOver([t \in priced |-> brd[t].kind.price], priced)
        stock_value == SumOver(player.stocks, DOMAIN player.stocks)
    IN player.cash + property_value + stock_value

-----------------------------------------------------------------------------
(* f32 arithmetic of the salary: (net_worth as f32 * 0.1) as i32.            *)
(* A finite f32 is [s, m, e] standing for s * m * 2^e with s in {1, -1} and  *)
(* either m = 0 or 2^23 <= m < 2^24 (24 significant bits).                   *)

RECURSIVE Pow2(_)
Pow2(k) == IF k = 0 THEN 1 ELSE 2 * Pow2(k - 1)

RECURSIVE BitLen(_)
BitLen(a) == IF a = 0 THEN 0 ELSE 1 + BitLen(a \div 2)

Abs(n) == IF n < 0 THEN -n ELSE n

F32Zero == [s |-> 1, m |-> 0, e |-> 0]

\* q with remainder r out of 2 * half: round to nearest, ties to even, and
\* renormalise when the mantissa carries into a 25th bit
RoundNearestEven(sign, q, r, half, e) ==
    LET up == (r > half) \/ (r = half /\ q % 2 = 1)
        m0 == IF up THEN q + 1 ELSE q
    IN IF m0 = Pow2(24) THEN [s |-> sign, m |-> Pow2(23), e |-> e + 1]
       ELSE [s |-> sign, m |-> m0, e |-> e]

\* `n as f32` for an i32 n with |n| <= i32::MAX
AsF32(n) ==
    LET a == Abs(n)
        sign == IF n < 0 THEN -1 ELSE 1
        bits == BitLen(a)
    IN IF a = 0 THEN F32Zero
       ELSE IF bits <= 24
            THEN [s |-> sign, m |-> a * Pow2(24 - bits), e |-> bits - 24]
            ELSE LET sh == bits - 24
                 IN RoundNearestEven(sign, a \div Pow2(sh), a % Pow2(sh),
                                     Pow2(sh - 1), sh)

\* the f32 literal 0.1 = 0x3DCCCCCD = 13421773 * 2^-27
F32Tenth == [s |-> 1, m |-> 13421773, e |-> -27]

\* x * y in f32.  The 48-bit product of the mantissas is kept as hi * 2^24 + lo,
\* built from 12-bit limbs so that no intermediate exceeds 31 bits.
F32Mul(x, y) ==
    IF x.m = 0 \/ y.m = 0 THEN F32Zero
    ELSE LET B == Pow2(12)
             x1 == x.m \div B
             x0 == x.m % B
             y1 == y.m \div B
             y0 == y.m % B
             mid == x1 * y0 + x0 * y1
             lowsum == (mid % B) * B + x0 * y0
             hi == x1 * y1 + (mid \div B) + (lowsum \div Pow2(24))
             lo == lowsum % Pow2(24)
             sign == x.s * y.s
             e == x.e + y.e
         IN IF hi >= Pow2(23)
            THEN RoundNearestEven(sign, hi, lo, Pow2(23), e + 24)
            ELSE RoundNearestEven(sign, 2 * hi + (lo \div Pow2(23)),
                                  lo % Pow2(23), Pow2(22), e + 23)

\* `x as i32`: the fraction is dropped (rounding toward zero); a value beyond
\* the i32 range saturates
F32ToI32(x) ==
    IF x.m = 0 THEN 0
    ELSE IF x.e >= 8 THEN (IF x.s = 1 THEN I32Max ELSE -I32Max - 1)
    ELSE IF x.e >= 0 THEN x.s * (x.m * Pow2(x.e))
    ELSE IF -x.e >= 24 THEN 0
    ELSE x.s * (x.m \div Pow2(-x.e))

\* salary_of with the tenth rounded down instead of toward zero
salary_of_floor(nw) == 500 + (nw \div 10)

\* let salary = 500 + (player.net_worth(&game.board) as f32 * 0.1) as i32
salary_of(nw) == 500 + F32ToI32(F32Mul(AsF32(nw), F32Tenth))

-----------------------------------------------------------------------------
(* handle_tile: the rule of each tile kind.  `game` is the Game struct        *)
(* [board, players, current_turn, district_shop_count].                       *)

\* Option::None of the owner lookup
NoOwner == -1

\* find_owner with the lookup lost: every tile looks unowned
find_owner_never(ps, tile_index) == NoOwner

\* game.players.iter().enumerate().find(|(_, p)| p.properties.contains(&tile_index)):
\* the first player, in roster order, whose set holds the index
find_owner(ps, tile_index) ==
    LET holders == {i \in DOMAIN ps : tile_index \in ps[i].properties}
    IN IF holders = {} THEN NoOwner
       ELSE CHOOSE i \in holders : \A j \in holders : i <= j

\* bank_qualifies that accepts three suits
bank_qualifies_three(player) == Cardinality(player.suits) >= 3

\* if player.suits.len() == 4
bank_qualifies(player) == Cardinality(player.suits) = 4

\* player.level += 1; player.cash += salary; player.suits.clear()
level_up(player, salary) ==
    [player EXCEPT !.level = @ + 1, !.cash = @ + salary, !.suits = {}]

\* TileKind::Bank.  The salary is computed after level += 1 and before the cash
\* and the suits change, so net_worth reads the cash and holdings of the landing.
handle_bank(player_idx, game) ==
    LET player == game.players[player_idx]
    IN IF bank_qualifies(player)
       THEN LET salary == salary_of(net_worth(player, game.board))
            IN [game EXCEPT !.players[player_idx] = level_up(player, salary)]
       ELSE game

\* pay_fee that charges the payer and credits nobody
pay_fee_no_credit(game, payer_idx, owner_idx, fee) ==
    [game EXCEPT !.players[payer_idx].cash = @ - fee]

\* payer.cash -= fee; receiver.cash += fee
pay_fee(game, payer_idx, owner_idx, fee) ==
    [game EXCEPT !.players[payer_idx].cash = @ - fee,
                 !.players[owner_idx].cash = @ + fee]

\* can_buy that only asks for some cash
can_buy_any_cash(cash, price) == cash > 0

\* if buyer.cash >= *price
can_buy(cash, price) == cash >= price

\* entry_increment that stores 1 instead of counting
entry_set_one(map, key) ==
    [k \in (DOMAIN map) \cup {key} |-> IF k = key THEN 1 ELSE map[k]]

\* *map.entry(key).or_default() += 1
entry_increment(map, key) ==
    [k \in (DOMAIN map) \cup {key} |->
        IF k = key THEN (IF key \in DOMAIN map THEN map[key] ELSE 0) + 1
        ELSE map[k]]

\* purchase that charges the fee of the tile instead of its price
purchase_at_fee(game, player_idx, tile_index, kind) ==
    [game EXCEPT !.players[player_idx].cash = @ - kind.base_fee,
                 !.players[player_idx].properties = @ \cup {tile_index},
                 !.district_shop_count = entry_increment(@, kind.district)]

\* purchase that hands the tile over without charging for it
purchase_free(game, player_idx, tile_index, kind) ==
    [game EXCEPT !.players[player_idx].properties = @ \cup {tile_index},
                 !.district_shop_count = entry_increment(@, kind.district)]

\* purchase that makes the new tile the buyer's only one
purchase_replace(game, player_idx, tile_index, kind) ==
    [game EXCEPT !.players[player_idx].cash = @ - kind.price,
                 !.players[player_idx].properties = {tile_index},
                 !.district_shop_count = entry_increment(@, kind.district)]

\* buyer.cash -= *price; buyer.properties.insert(tile_index);
\* *game.district_shop_count.entry(district).or_default() += 1
purchase(game, player_idx, tile_index, kind) ==
    [game EXCEPT !.players[player_idx].cash = @ - kind.price,
                 !.players[player_idx].properties = @ \cup {tile_index},
                 !.district_shop_count = entry_increment(@, kind.district)]

\* handle_property that looks for an owner among the other players only, so
\* that the lander's own tile counts as unowned
handle_property_rebuy(tile_index, kind, player_idx, game) ==
    LET others == [i \in (DOMAIN game.players) \ {player_idx} |-> game.players[i]]
        owner == find_owner(others, tile_index)
    IN IF owner # NoOwner
       THEN pay_fee(game, player_idx, owner, kind.base_fee)
       ELSE IF can_buy(game.players[player_idx].cash, kind.price)
       THEN purchase(game, player_idx, tile_index, kind)
       ELSE game

\* TileKind::Property: match owner { Some(other) => fee, None => buy, _ => {} }
handle_property(tile_index, kind, player_idx, game) ==
    LET owner == find_owner(game.players, tile_index)
    IN IF owner # NoOwner /\ owner # player_idx
       THEN pay_fee(game, player_idx, owner, kind.base_fee)
       ELSE IF owner = NoOwner
       THEN (IF can_buy(game.players[player_idx].cash, kind.price)
             THEN purchase(game, player_idx, tile_index, kind)
             ELSE game)
       ELSE game

\* handle_suit that starts the set over with the new suit
handle_suit_replace(suit, player_idx, game) ==
    [game EXCEPT !.players[player_idx].suits = {suit}]

\* handle_suit that gives a suit already held back
handle_suit_toggle(suit, player_idx, game) ==
    [game EXCEPT !.players[player_idx].suits =
        IF suit \in @ THEN @ \ {suit} ELSE @ \cup {suit}]

\* TileKind::Suit: game.players[player_idx].suits.insert(*suit)
handle_suit(suit, player_idx, game) ==
    [game EXCEPT !.players[player_idx].suits = @ \cup {suit}]

\* handle_chance that pays the first player of the roster
handle_chance_first(delta, player_idx, game) ==
    [game EXCEPT !.players[0].cash = @ + delta]

\* handle_chance with the sign of the delta lost
handle_chance_negated(delta, player_idx, game) ==
    [game EXCEPT !.players[player_idx].cash = @ - delta]

\* TileKind::Chance: game.players[player_idx].cash += delta
handle_chance(delta, player_idx, game) ==
    [game EXCEPT !.players[player_idx].cash = @ + delta]

\* delta is the value rand::thread_rng().gen_range(-150..=200) returns when the
\* tile is a Chance tile
handle_tile(tile_index, kind, player_idx, game, delta) ==
    CASE kind.kind = "Bank" -> handle_bank(player_idx, game)
      [] kind.kind = "Property" -> handle_property(tile_index, kind, player_idx, game)
      [] kind.kind = "Suit" -> handle_suit(kind.suit, player_idx, game)
      [] kind.kind = "Chance" -> handle_chance(delta, player_idx, game)

\* gen_range(-150..=200)
chance_min == -150
chance_max == 200
\* the draws explored: both ends of the range and a value inside it
ChanceDraws == {chance_min, 0, chance_max}

\* the random draw handle_tile makes: one only on a Chance tile
draws_for(kind) == IF kind.kind = "Chance" THEN ChanceDraws ELSE {0}

-----------------------------------------------------------------------------
(* advance_player *)

RECURSIVE Pow2Mod(_, _)
\* 2^k mod m
Pow2Mod(k, m) == IF k = 0 THEN 1 % m ELSE (2 * Pow2Mod(k - 1, m)) % m

\* widths of usize the program is built for
UsizeBits == {32, 64}

\* (pos as i32 + roll) wrapped to i32 is pos + roll - 2^32 when the sum exceeds
\* i32::MAX; `as usize` adds 2^bits to that negative value; then % board_len.
\* Computed on residues: pos - 2^31 and roll - 2^31 both fit 32 bits.
wrapped_index(pos, roll, board_len, bits) ==
    (Pow2Mod(bits, board_len)
       + ((pos - I32Max - 1) % board_len)
       + ((roll - I32Max - 1) % board_len)) % board_len

Landed(n) == [panic |-> FALSE, position |-> n]
Panicked == [panic |-> TRUE, position |-> 0]

\* new_position with the old position left out of the sum
new_position_roll_only(pos, roll, board_len) == {Landed(roll % board_len)}

\* player.position = ((player.position as i32 + roll) as usize) % board_len.
\* The outcomes the builds can produce: with overflow checks the i32 addition
\* panics when it overflows, without them it wraps; a negative sum cast to
\* usize is the sum + 2^bits; % 0 panics.
new_position(pos, roll, board_len) ==
    IF board_len = 0 THEN {Panicked}
    ELSE IF roll > I32Max - pos
    THEN {Panicked} \cup
         {Landed(wrapped_index(pos, roll, board_len, w)) : w \in UsizeBits}
    ELSE IF pos + roll < 0
    THEN {Landed((Pow2Mod(w, board_len) + ((pos + roll) % board_len)) % board_len) :
             w \in UsizeBits}
    ELSE {Landed((pos + roll) % board_len)}

Game == [board |-> board, players |-> players, current_turn |-> current_turn,
         district_shop_count |-> district_shop_count]

NoCall == [op |-> "none", player |-> 0, roll |-> 0, tile |-> 0, delta |-> 0]

\* advance_player(player_idx, roll, game, tokens): the position is set, then the
\* tile landed on is resolved by handle_tile (the token sprites are display only)
advance_player(player_idx, roll) ==
    \E out \in new_position(players[player_idx].position, roll, len(board)) :
        IF out.panic
        THEN /\ UNCHANGED <<players, district_shop_count>>
             /\ last' = [op |-> "panic", player |-> player_idx, roll |-> roll,
                         tile |-> 0, delta |-> 0]
        ELSE LET tile_index == out.position
                 tile_kind == board[tile_index].kind
                 moved == [Game EXCEPT !.players[player_idx].position = tile_index]
             IN \E delta \in draws_for(tile_kind) :
                  LET g == handle_tile(tile_index, tile_kind, player_idx, moved, delta)
                  IN /\ players' = g.players
                     /\ district_shop_count' = g.district_shop_count
                     /\ last' = [op |-> "move", player |-> player_idx,
                                 roll |-> roll, tile |-> tile_index,
                                 delta |-> delta]

-----------------------------------------------------------------------------
(* bot_turns: the scheduler entry point, run when the 2-second timer fires.  *)
(* A frame whose timer has not finished returns at once and is a stutter.    *)

\* current_player reading the index after rotation
current_player_rotated(turn, n) == (turn + 1) % n

\* let current = game.current_turn % game.players.len()
current_player(turn, n) == turn % n

\* next_turn stepping over a player
next_turn_skipping(turn, n) == (turn + 2) % n

\* game.current_turn = (game.current_turn + 1) % game.players.len()
next_turn(turn, n) == (turn + 1) % n

\* rand::thread_rng().gen_range(1..=6)
die_rolls == 1..6

Running == last.op # "panic" /\ turns + calls < limit

\* is_empty that never reports an empty roster
is_empty_never(ps) == FALSE

\* if game.players.is_empty() { return; }
is_empty(ps) == len(ps) = 0

\* is_bot that takes every player for a Bot
is_bot_always(player) == TRUE

\* let is_bot = matches!(game.players[current].kind, PlayerKind::Bot)
is_bot(player) == player.kind = "Bot"

bot_turns ==
    /\ Running
    /\ before' = Game
    /\ turns' = turns + 1
    /\ UNCHANGED <<board, calls, limit>>
    /\ IF is_empty(players)
       THEN /\ UNCHANGED <<players, district_shop_count, current_turn>>
            /\ last' = [NoCall EXCEPT !.op = "empty"]
       ELSE IF len(players) = 0
       THEN \* game.current_turn % 0: the remainder by zero panics
            /\ UNCHANGED <<players, district_shop_count, current_turn>>
            /\ last' = [NoCall EXCEPT !.op = "panic"]
       ELSE LET current == current_player(current_turn, len(players))
            IN IF ~is_bot(players[current])
               THEN /\ current_turn' = next_turn(current_turn, len(players))
                    /\ UNCHANGED <<players, district_shop_count>>
                    /\ last' = [NoCall EXCEPT !.op = "skip", !.player = current]
               ELSE \E roll \in die_rolls :
                      /\ advance_player(current, roll)
                      /\ current_turn' = IF last'.op = "panic" THEN current_turn
                                         ELSE next_turn(current_turn, len(players))

-----------------------------------------------------------------------------
(* The session of the program: Game::new() driven by bot_turns *)

Init ==
    /\ board = generate_board
    /\ players = new_players
    /\ current_turn = 0
    /\ district_shop_count = << >>
    /\ last = NoCall
    /\ before = Game
    /\ turns = 0
    /\ calls = 0
    /\ limit = MaxTurns

Next == bot_turns

Spec == Init /\ [][Next]_vars

-----------------------------------------------------------------------------
(* The engine applied to any session: the roster is drawn from a set of       *)
(* player ledgers, and advance_player is called for any player with any roll  *)
(* of its i32 parameter, beside the scheduler's own calls.                    *)

AllSuits == Suits
ThreeSuits == Suits \ {"Club"}

\* ledgers a player may start from: [cash, suits, position, stocks]
Ledgers ==
    { [cash |-> starting_cash, suits |-> {}, position |-> 0, stocks |-> << >>],
      [cash |-> 95, suits |-> {}, position |-> 0, stocks |-> << >>],
      [cash |-> 1000, suits |-> AllSuits, position |-> 7, stocks |-> << >>],
      [cash |-> -1005, suits |-> AllSuits, position |-> 7, stocks |-> << >>],
      [cash |-> starting_cash, suits |-> ThreeSuits, position |-> 7,
       stocks |-> << >>],
      [cash |-> 1000, suits |-> AllSuits, position |-> 7,
       stocks |-> [d \in {"Plaza"} |-> 55]],
      \* a fortune beyond 2^24, which f32 cannot hold exactly
      [cash |-> 100000007, suits |-> AllSuits, position |-> 7,
       stocks |-> << >>] }

\* roster sizes explored
RosterSizes == 0..2

\* as in Game::new, the first player is the Human and the others are Bots
kind_of(i) == IF i = 0 THEN "Human" ELSE "Bot"

with_ledger(i, l) ==
    [new_player("P", kind_of(i), l.cash) EXCEPT
        !.suits = l.suits, !.position = l.position, !.stocks = l.stocks]

Rosters ==
    UNION { { [i \in 0..(n - 1) |-> with_ledger(i, f[i])] :
                f \in [0..(n - 1) -> Ledgers] } : n \in RosterSizes }

\* rolls advance_player is called with: a die, a full lap, the largest i32
EngineRolls == die_rolls \cup {12, I32Max}

InitEngine ==
    /\ board = generate_board
    /\ players \in Rosters
    /\ current_turn = 0
    /\ district_shop_count = << >>
    /\ last = NoCall
    /\ before = Game
    /\ turns = 0
    /\ calls = 0
    /\ limit = MaxCalls

\* a direct call advance_player(player_idx, roll, ..) for an existing player
advance_call ==
    /\ Running
    /\ before' = Game
    /\ calls' = calls + 1
    /\ UNCHANGED <<board, current_turn, turns, limit>>
    /\ \E player_idx \in DOMAIN players, roll \in EngineRolls :
          advance_player(player_idx, roll)

NextEngine == bot_turns \/ advance_call

SpecEngine == InitEngine /\ [][NextEngine]_vars

-----------------------------------------------------------------------------
(* Vocabulary of the properties.  A step is described by the state before   *)
(* it (unprimed), the state after it (primed) and last', the call it made.  *)

\* the step is a completed advance_player call
Moved == last'.op = "move"
\* the player the step moved and the tile landed on
Mover == last'.player
Landing == last'.tile
LandingKind == board[last'.tile].kind

\* nobody holds tile t in roster ps
Unowned(ps, t) == \A i \in DOMAIN ps : t \notin ps[i].properties

\* the count a district has in a HashMap (a missing key counts as 0)
Count(map, d) == IF d \in DOMAIN map THEN map[d] ELSE 0

\* (a + b) mod m computed on residues, for sums beyond 32 bits
ModSum(a, b, m) == ((a % m) + (b % m)) % m

\* the last call was a completed advance_player call landing on a tile of kind k
LandedOn(k) == last.op = "move" /\ board[last.tile].kind.kind = k

-----------------------------------------------------------------------------
\* C1: exclusive ownership: in every state reachable from Game::new() by
\* turns, rolls and Chance draws, no tile index is in the owned properties of
\* two different players.
C1_ExclusiveOwnership ==
    \A i, j \in DOMAIN players :
        i # j => players[i].properties \cap players[j].properties = {}

\* a player has landed on a tile that another player owns
C1_Witness ==
    /\ LandedOn("Property")
    /\ \E i \in DOMAIN players :
          i # last.player /\ last.tile \in players[i].properties

-----------------------------------------------------------------------------
\* C2: every completed advance_player call, for every player, position and
\* positive roll, leaves the player's position equal to
\* (old position + roll) mod board length, whatever tile is landed on.
C2_Step ==
    Moved /\ last'.roll > 0 =>
        players'[Mover].position =
            ModSum(players[Mover].position, last'.roll, len(board))

-----------------------------------------------------------------------------
\* the step is a bot_turns call (its timer had finished) on a non-empty roster
TurnFired == turns' = turns + 1 /\ len(players) > 0

\* the roster after player p, at tile t, had that tile resolved with draw d
Resolved(p, t, d) ==
    handle_tile(t, board[t].kind, p,
                [Game EXCEPT !.players[p].position = t], d).players

\* C3 as stated: every turn that fires with a non-empty roster advances the
\* player at the active turn index by the roll, Human or Bot, and then
\* advances the turn index.
C3_Original_Step ==
    TurnFired =>
        /\ \E roll \in die_rolls :
              players'[current_turn].position =
                  (players[current_turn].position + roll) % len(board)
        /\ current_turn' = (current_turn + 1) % len(players)

C3_Original == [][C3_Original_Step]_vars

\* C3 (amended): each time the turn entry point fires with a non-empty roster
\* and the player at the active turn index is a Bot, that player (the one at
\* the index before rotation, and no other) is advanced by a roll of 1..6 and
\* the landing tile is resolved, and the turn index then advances by one; when
\* that player is a Human the turn only advances the turn index: nobody is
\* moved and no tile is resolved.
C3_Step ==
    TurnFired =>
        IF players[current_turn].kind = "Bot"
        THEN /\ Moved
             /\ Mover = current_turn
             /\ last'.roll \in die_rolls
             /\ Landing = (players[current_turn].position + last'.roll) % len(board)
             /\ players' = Resolved(current_turn, Landing, last'.delta)
             /\ \A i \in DOMAIN players :
                   i # current_turn => players'[i].position = players[i].position
             /\ current_turn' = (current_turn + 1) % len(players)
        ELSE /\ ~Moved
             /\ players' = players
             /\ district_shop_count' = district_shop_count
             /\ current_turn' = (current_turn + 1) % len(players)

C3_BotMovesHumanSkips == [][C3_Step]_vars

\* a Bot's turn has moved it onto a Property tile it bought there, and the
\* turn index has passed to the next player
C3_Witness ==
    /\ LandedOn("Property")
    /\ turns > 0
    /\ players[last.player].kind = "Bot"
    /\ before.current_turn = last.player
    /\ last.tile \notin before.players[last.player].properties
    /\ last.tile \in players[last.player].properties
    /\ current_turn = (last.player + 1) % len(players)

-----------------------------------------------------------------------------
\* C4: turn rotation: in every reachable state the active turn index is in
\* [0, player count); each turn advances it by exactly one modulo the player
\* count (never by zero, never by two), so that after player_count turns it is
\* back at the value it started from (0): it equals turns mod player_count.
C4_TurnRotation ==
    LET n == len(players)
    IN /\ current_turn \in 0..(n - 1)
       /\ current_turn = turns % n
       /\ turns > 0 =>
            /\ current_turn = (before.current_turn + 1) % n
            /\ current_turn # before.current_turn
            /\ current_turn # (before.current_turn + 2) % n

\* player_count turns have been taken and the index is back at its start
C4_Witness ==
    /\ turns = len(players)
    /\ last.op = "move"
    /\ before.current_turn = len(players) - 1
    /\ current_turn = 0

-----------------------------------------------------------------------------
\* the step lands the mover on a Property tile nobody owns
LandsUnowned ==
    Moved /\ LandingKind.kind = "Property" /\ Unowned(players, Landing)

\* C5: successful purchase: when a player lands on a Property tile that no
\* player owns and their cash is at least the price, their cash decreases by
\* exactly the price, their owned properties gain exactly that tile index, and
\* the district count of the tile's district increases by exactly 1; no player
\* ever gains a tile whose price exceeded their cash.
C5_Step ==
    /\ LandsUnowned /\ players[Mover].cash >= LandingKind.price =>
          /\ players'[Mover].cash = players[Mover].cash - LandingKind.price
          /\ players'[Mover].properties = players[Mover].properties \cup {Landing}
          /\ Count(district_shop_count', LandingKind.district)
                = Count(district_shop_count, LandingKind.district) + 1
    /\ \A i \in DOMAIN players :
          \A t \in players'[i].properties \ players[i].properties :
              players[i].cash >= board[t].kind.price

C5_SuccessfulPurchase == [][C5_Step]_vars

\* a player with enough cash has landed on an unowned Property tile and holds it
C5_Witness ==
    /\ LandedOn("Property")
    /\ Unowned(before.players, last.tile)
    /\ before.players[last.player].cash >= board[last.tile].kind.price
    /\ last.tile \in players[last.player].properties
    /\ players[last.player].cash
          = before.players[last.player].cash - board[last.tile].kind.price
    /\ Count(district_shop_count, board[last.tile].kind.district) = 1

-----------------------------------------------------------------------------
\* C6: declined purchase is a silent no-op: when a player lands on an unowned
\* Property tile with cash strictly below its price, no cash of any player
\* changes, no owned set changes and the district counts are unchanged; only
\* the landing player's position can differ from the state before the move.
C6_Step ==
    LandsUnowned /\ players[Mover].cash < LandingKind.price =>
        /\ players' = [players EXCEPT ![Mover].position = Landing]
        /\ \A i \in DOMAIN players :
              /\ players'[i].cash = players[i].cash
              /\ players'[i].properties = players[i].properties
        /\ district_shop_count' = district_shop_count

C6_DeclinedPurchaseNoOp == [][C6_Step]_vars

\* a player too poor for the price has landed on an unowned Property tile,
\* which is still unowned
C6_Witness ==
    /\ LandedOn("Property")
    /\ Unowned(before.players, last.tile)
    /\ before.players[last.player].cash < board[last.tile].kind.price
    /\ before.players[last.player].position # last.tile
    /\ Unowned(players, last.tile)
    /\ players = [before.players EXCEPT ![last.player].position = last.tile]

-----------------------------------------------------------------------------
\* C7: fee transfer is zero-sum: when a player lands on a Property tile owned
\* by a different player, the lander's cash decreases by exactly base_fee and
\* the owner's increases by exactly base_fee, so their sum is unchanged; the
\* fee is charged whatever the lander's cash (it may go negative), and no owned
\* set changes.
C7_Step ==
    \A o \in DOMAIN players :
        (Moved /\ LandingKind.kind = "Property" /\ o # Mover
               /\ Landing \in players[o].properties) =>
            /\ players'[Mover].cash = players[Mover].cash - LandingKind.base_fee
            /\ players'[o].cash = players[o].cash + LandingKind.base_fee
            /\ players'[Mover].cash + players'[o].cash
                  = players[Mover].cash + players[o].cash
            /\ \A i \in DOMAIN players :
                  players'[i].properties = players[i].properties

C7_FeeTransferZeroSum == [][C7_Step]_vars

\* a player whose cash was already negative has paid the fee to the owner
C7_Witness ==
    /\ LandedOn("Property")
    /\ before.players[last.player].cash < 0
    /\ \E o \in DOMAIN players :
          /\ o # last.player
          /\ last.tile \in before.players[o].properties
          /\ players[o].cash
                = before.players[o].cash + board[last.tile].kind.base_fee
          /\ players[last.player].cash
                = before.players[last.player].cash - board[last.tile].kind.base_fee

-----------------------------------------------------------------------------
\* the step lands the mover on the Bank tile
LandsOnBank == Moved /\ LandingKind.kind = "Bank"

\* C8: Bank leveling triggers iff the landing player holds all 4 suits at
\* landing: then their level increases by exactly 1 and their suits become
\* empty; with fewer than 4 suits the Bank landing changes no level, cash or
\* suits of any player.  In no other step does any player's level change.
C8_Step ==
    /\ LandsOnBank /\ Cardinality(players[Mover].suits) = 4 =>
          /\ players'[Mover].level = players[Mover].level + 1
          /\ players'[Mover].suits = {}
    /\ LandsOnBank /\ Cardinality(players[Mover].suits) < 4 =>
          \A i \in DOMAIN players :
              /\ players'[i].level = players[i].level
              /\ players'[i].cash = players[i].cash
              /\ players'[i].suits = players[i].suits
    /\ \A i \in DOMAIN players :
          players'[i].level # players[i].level =>
              /\ LandsOnBank
              /\ Mover = i
              /\ Cardinality(players[i].suits) = 4

C8_BankLevelingIffFourSuits == [][C8_Step]_vars

\* a player holding all four suits has landed on the Bank and gone up a level
C8_Witness ==
    /\ LandedOn("Bank")
    /\ before.players[last.player].suits = Suits
    /\ players[last.player].level = before.players[last.player].level + 1
    /\ players[last.player].suits = {}

-----------------------------------------------------------------------------
\* net worth of a player of roster ps: cash + prices of owned tiles + stocks
NetWorthOf(ps, p) ==
    ps[p].cash
      + SumOver([t \in ps[p].properties |-> board[t].kind.price], ps[p].properties)
      + SumOver(ps[p].stocks, DOMAIN ps[p].stocks)

\* floor(n / 10)
FloorTenth(n) == n \div 10
\* n / 10 rounded toward zero
TruncTenth(n) == IF n >= 0 THEN n \div 10 ELSE -((-n) \div 10)

\* the step is a Bank landing of a player holding all 4 suits
QualifyingBankLanding == LandsOnBank /\ Cardinality(players[Mover].suits) = 4

\* C9 as stated: on a qualifying Bank landing the cash increases by exactly
\* 500 + floor(0.1 x net_worth_before), for every integer net worth, cash
\* being allowed to be negative.
C9_Original_Step ==
    QualifyingBankLanding =>
        players'[Mover].cash
            = players[Mover].cash + 500 + FloorTenth(NetWorthOf(players, Mover))

C9_Step ==
    QualifyingBankLanding /\ Abs(NetWorthOf(players, Mover)) < Pow2(24) =>
        players'[Mover].cash
            = players[Mover].cash + 500 + TruncTenth(NetWorthOf(players, Mover))

-----------------------------------------------------------------------------
\* C10: suits are cleared only at a qualifying Bank landing: a player's suits
\* become empty in a step where that player lands on the Bank holding all 4;
\* in a step where that player lands on a Suit tile they are the old suits
\* plus that tile's suit; in every other step they are unchanged; their size
\* stays in 0..4.
C10_Step ==
    \A i \in DOMAIN players :
        /\ IF QualifyingBankLanding /\ Mover = i
           THEN players'[i].suits = {}
           ELSE IF Moved /\ Mover = i /\ LandingKind.kind = "Suit"
           THEN players'[i].suits = players[i].suits \cup {LandingKind.suit}
           ELSE players'[i].suits = players[i].suits
        /\ Cardinality(players'[i].suits) \in 0..4

C10_SuitsClearedOnlyAtBank == [][C10_Step]_vars

\* a player holding some suits has landed on a Suit tile and gained its suit,
\* keeping the others
C10_Witness ==
    /\ LandedOn("Suit")
    /\ before.players[last.player].suits # {}
    /\ board[last.tile].kind.suit \notin before.players[last.player].suits
    /\ players[last.player].suits
          = before.players[last.player].suits \cup {board[last.tile].kind.suit}

-----------------------------------------------------------------------------
\* C11: side effects of a move are confined: an advance_player call for player
\* p changes no field of any player other than p and, only when p lands on a
\* Property tile owned by another player, that owner; no step changes the
\* board's tiles.
C11_Step ==
    /\ Moved =>
          \A i \in DOMAIN players :
              (i # Mover /\ players'[i] # players[i]) =>
                  /\ LandingKind.kind = "Property"
                  /\ Landing \in players[i].properties
    /\ DOMAIN players' = DOMAIN players
    /\ board' = board

C11_SideEffectsConfined == [][C11_Step]_vars

\* a move has changed the ledger of another player, the owner of the tile
C11_Witness ==
    /\ LandedOn("Property")
    /\ \E o \in DOMAIN players :
          /\ o # last.player
          /\ players[o] # before.players[o]
          /\ last.tile \in before.players[o].properties
    /\ board = generate_board

-----------------------------------------------------------------------------
\* the districts of the layout
Districts ==
    {layout[k].district : k \in {j \in 1..Len(layout) : layout[j].kind = "Property"}}

\* the tiles of district d that some player of roster ps owns
OwnedIn(ps, d) ==
    {t \in DOMAIN board :
        /\ board[t].kind.kind = "Property"
        /\ board[t].kind.district = d
        /\ \E i \in DOMAIN ps : t \in ps[i].properties}

\* C12: district_shop_count is a purchase counter: for every district its
\* count never decreases, and in every reachable state it equals the number of
\* tiles of that district that are in some player's owned properties (a
\* district never bought from counts as 0).
C12_DistrictCountIsOwnedTiles ==
    \A d \in Districts :
        /\ Count(district_shop_count, d) = Cardinality(OwnedIn(players, d))
        /\ Count(district_shop_count, d) >= Count(before.district_shop_count, d)

\* both tiles of a district have been bought and its count is 2, while
\* another district was never bought from
C12_Witness ==
    \E d, e \in Districts :
        /\ Count(district_shop_count, d) = 2
        /\ Cardinality(OwnedIn(players, d)) = 2
        /\ e \notin DOMAIN district_shop_count

-----------------------------------------------------------------------------
\* C13: Chance resolution: landing on a Chance tile changes the landing
\* player's cash by a delta d with -150 <= d <= 200 and changes nothing else:
\* no other player's cash, no ownership, no suits, no level, no district count
\* (only the lander's position and cash differ).
C13_Step ==
    Moved /\ LandingKind.kind = "Chance" =>
        /\ \E d \in (-150)..200 :
              players' = [players EXCEPT ![Mover].position = Landing,
                                         ![Mover].cash = @ + d]
        /\ district_shop_count' = district_shop_count

C13_ChanceResolution == [][C13_Step]_vars

\* both ends of the range have been drawn: a player who started with 2500 got
\* +200 on a Chance tile and then -150 on the next Chance landing
C13_Witness ==
    /\ LandedOn("Chance")
    /\ last.delta = -150
    /\ before.players[last.player].cash = 2500 + 200
    /\ before.players[last.player].properties = {}
    /\ players[last.player].cash = 2500 + 200 - 150

-----------------------------------------------------------------------------
\* C14: landing on one's own property has no effect: when a player lands on a
\* Property tile already in their own owned properties, no cash changes, no
\* owned set changes and the district counts are unchanged, whatever the
\* player's cash (only the lander's position can differ).
C14_Step ==
    (Moved /\ LandingKind.kind = "Property"
           /\ Landing \in players[Mover].properties) =>
        /\ players' = [players EXCEPT ![Mover].position = Landing]
        /\ district_shop_count' = district_shop_count

C14_OwnPropertyNoEffect == [][C14_Step]_vars

\* a player who could afford the tile a second time has landed on a tile they
\* already owned, and nothing but the call record changed
C14_Witness ==
    /\ LandedOn("Property")
    /\ last.tile \in before.players[last.player].properties
    /\ before.players[last.player].cash >= board[last.tile].kind.price
    /\ players = [before.players EXCEPT ![last.player].position = last.tile]
    /\ district_shop_count = before.district_shop_count

-----------------------------------------------------------------------------
\* C15: a session with zero players is a no-op: when the roster is empty a
\* turn changes nothing in the session (roster, turn index, board, district
\* counts) and takes no remainder by the player count (which would panic).
C15_Step ==
    turns' = turns + 1 /\ len(players) = 0 =>
        /\ last'.op = "empty"
        /\ players' = players
        /\ current_turn' = current_turn
        /\ board' = board
        /\ district_shop_count' = district_shop_count

C15_EmptyRosterNoOp == [][C15_Step]_vars

\* two turns have fired on an empty roster and the session is as it started
C15_Witness ==
    /\ len(players) = 0
    /\ turns = 2
    /\ last.op = "empty"
    /\ current_turn = 0
    /\ district_shop_count = << >>

-----------------------------------------------------------------------------
\* C16: suit collection is idempotent: landing on a Suit tile adds that
\* tile's suit to the landing player's suits, and landing on a Suit tile whose
\* suit the player already holds leaves the suits and every other field but
\* the position unchanged, so that resolving the same Suit tile twice gives
\* the suit set of resolving it once.
C16_Step ==
    Moved /\ LandingKind.kind = "Suit" =>
        /\ players'[Mover].suits = players[Mover].suits \cup {LandingKind.suit}
        /\ LandingKind.suit \in players[Mover].suits =>
              /\ players' = [players EXCEPT ![Mover].position = Landing]
              /\ district_shop_count' = district_shop_count

C16_SuitCollectionIdempotent == [][C16_Step]_vars

\* a player standing on a Suit tile whose suit it had just collected has
\* landed on the same tile again (a full lap) and holds the same suits
C16_Witness ==
    /\ LandedOn("Suit")
    /\ before.players[last.player].position = last.tile
    /\ board[last.tile].kind.suit \in before.players[last.player].suits
    /\ players[last.player].suits = before.players[last.player].suits
    /\ players = before.players

-----------------------------------------------------------------------------
\* the step is a call of advance_player (completed or aborted) with a
\* positive roll
AdvanceCalled == last'.op \in {"move", "panic"} /\ last'.roll > 0

\* C17: advance_player accepts any positive roll of its 32-bit signed roll
\* type without arithmetic overflow: for every such roll and every position
\* in [0, board length) the sum position + roll fits an i32 (it is computed
\* without wrapping or aborting), the call completes, and the resulting
\* position is in [0, board length).
C17_Step ==
    AdvanceCalled =>
        /\ last'.roll <= I32Max - players[last'.player].position
        /\ Moved
        /\ players'[Mover].position \in 0..(len(board) - 1)

C17_AnyPositiveRollWithoutOverflow == [][C17_Step]_vars

-----------------------------------------------------------------------------
\* the suits that have a tile on the board
BoardSuits == {board[t].kind.suit : t \in {u \in DOMAIN board : board[u].kind.kind = "Suit"}}

-----------------------------------------------------------------------------
\* the sum of all players' net worth in roster ps
TotalNetWorth(ps) == SumOver([i \in DOMAIN ps |-> NetWorthOf(ps, i)], DOMAIN ps)

\* C19: total net worth is conserved by property dealings: a step whose
\* landing tile is a Property (purchase, declined purchase, fee to another
\* owner, own tile), a Suit tile, or the Bank with fewer than 4 suits leaves
\* the sum of all players' net worth unchanged, and a purchase leaves the
\* buyer's own net worth unchanged; the sum changes only by the Chance delta
\* on a Chance tile or by the salary paid at a qualifying Bank landing.
C19_Step ==
    IF Moved /\ LandingKind.kind = "Chance"
    THEN TotalNetWorth(players') = TotalNetWorth(players) + last'.delta
    ELSE IF QualifyingBankLanding
    THEN TotalNetWorth(players') - TotalNetWorth(players)
            = players'[Mover].cash - players[Mover].cash
    ELSE /\ TotalNetWorth(players') = TotalNetWorth(players)
         /\ \A i \in DOMAIN players :
               players'[i].properties # players[i].properties =>
                   NetWorthOf(players', i) = NetWorthOf(players, i)

C19_NetWorthConserved == [][C19_Step]_vars

\* a purchase has turned cash into a tile of the same value, and a fee has
\* then moved cash between two players: the total is what it was
C19_Witness ==
    /\ LandedOn("Property")
    /\ \E o \in DOMAIN players :
          /\ o # last.player
          /\ players[o].properties # {}
          /\ last.tile \in players[o].properties
          /\ players[o].cash > before.players[o].cash
    /\ players[last.player].cash < before.players[last.player].cash
    /\ TotalNetWorth(players) = TotalNetWorth(before.players)

-----------------------------------------------------------------------------
\* C20: ownership is permanent: once a tile index is in a player's owned
\* properties it stays in that same player's set in every later state and
\* never appears in another player's set (no rule removes or transfers a
\* property), and every owned index is the index of a Property tile.
C20_Step ==
    \A i \in DOMAIN players :
        /\ players[i].properties \subseteq players'[i].properties
        /\ \A t \in players[i].properties :
              \A j \in DOMAIN players : j # i => t \notin players'[j].properties
        /\ \A t \in players'[i].properties :
              t \in DOMAIN board /\ board[t].kind.kind = "Property"

C20_OwnershipPermanent == [][C20_Step]_vars

\* a player who already owned a tile has bought a second one and still holds
\* the first, while another player owns tiles of their own
C20_Witness ==
    /\ LandedOn("Property")
    /\ before.players[last.player].properties # {}
    /\ last.tile \notin before.players[last.player].properties
    /\ players[last.player].properties
          = before.players[last.player].properties \cup {last.tile}
    /\ \E o \in DOMAIN players :
          o # last.player /\ players[o].properties # {}


-----------------------------------------------------------------------------
\* C21: in a session started by Game::new and driven by bot_turns the Human
\* player (index 0) is never moved or charged: in every reachable state their
\* position is 0, their cash is 2500, their owned properties and collected
\* suits are empty and their level is 0, while the turn index still passes
\* through 0 once per round: it is 0 exactly when a whole number of rounds
\* has been played, and the turn taken at index 0 only passes the index on.
C21_HumanNeverMovedOrCharged ==
    LET human == players[0]
        n == len(players)
    IN /\ human.kind = "Human"
       /\ human.position = 0
       /\ human.cash = starting_cash
       /\ human.properties = {}
       /\ human.suits = {}
       /\ human.level = 0
       /\ current_turn = 0 <=> turns % n = 0
       /\ (turns > 0 /\ before.current_turn = 0) =>
             /\ last.op = "skip"
             /\ last.player = 0
             /\ players = before.players
             /\ current_turn = 1
       /\ (turns > 0 /\ before.current_turn # 0) =>
             /\ last.op = "move"
             /\ last.player # 0

\* the turn index has come back to 0 after a full round and the Human's turn
\* has been passed on a second time, while both Bots have moved off the Bank
\* and a Bot has paid for something
C21_Witness ==
    /\ turns = len(players) + 1
    /\ before.current_turn = 0
    /\ last.op = "skip"
    /\ last.player = 0
    /\ current_turn = 1
    /\ \A i \in DOMAIN players : i # 0 => players[i].position # 0
    /\ \E i \in DOMAIN players : i # 0 /\ players[i].cash < starting_cash

=============================================================================
